---- MODULE Spec2Model ----
(***************************************************************************)
(* The two-stage failure prediction service of backend/app:               *)
(*   predictor.py      module-level artifact loading and                  *)
(*                     predict_machine_failure (gate, modes, fallback)    *)
(*   main.py           the async /predict handler                         *)
(*   vehiclereport.py  generate_maintenance_report (the awaited Groq call)*)
(*                                                                         *)
(* Probabilities are binary floats, i.e. dyadic rationals: a probability  *)
(* is the integer m standing for m / Den with Den = 2^ProbBits.  Rounded  *)
(* output values are integers n standing for n / 1000.                     *)
(***************************************************************************)
EXTENDS Integers, Sequences, FiniteSets, TLC

----------------------------------------------------------------------------
(* Bounds of the model *)

\* precision of the modelled floats: probabilities are multiples of 2^-ProbBits
ProbBits == 12

\* number of requests that can be in flight at once in the concurrent specification
MaxReq == 2

Den == 2 ^ ProbBits

----------------------------------------------------------------------------
(* Python values *)

\* Python's None where a number is expected (an absent threshold)
None == -1

\* pandas' missing marker (NaN) in a cell of the frame X
NaN == -1

\* the empty dict {}
EmptyDict == [k \in {} |-> 0]

\* d[k] = v on a dict
Put(d, k, v) == [x \in (DOMAIN d) \cup {k} |-> IF x = k THEN v ELSE d[x]]

\* dict.get(key, default)
Get(d, k, default) == IF k \in DOMAIN d THEN d[k] ELSE default

\* an Optional[dict]: None, or a dict
NoneTypes == [none |-> TRUE, items |-> EmptyDict]
SomeTypes(d) == [none |-> FALSE, items |-> d]

\* round(float(p), 3): the correctly rounded decimal, ties to even, of the
\* exact binary value m / Den; the result in thousandths
Round3(m) ==
    LET q == (m * 1000) \div Den
        r == (m * 1000) % Den
    IN  IF 2 * r > Den \/ (2 * r = Den /\ q % 2 = 1) THEN q + 1 ELSE q

----------------------------------------------------------------------------
(* The artifacts on disk (produced by the training pipeline) *)

\* calibrated operating points: 0.5, and 0.30029... which is not a 3-decimal number
T_HALF == Den \div 2
T_CAL == (3 * Den) \div 10 + 2

\* a file joblib.load cannot read
NoFile == [nofile |-> TRUE]

\* what the classifiers do with a NaN cell: sklearn estimators either raise
\* ValueError or route the missing value down a default branch
NanPolicies == {"raise", "accept"}

\* the gate's feature vocabulary: all of it fields of MachineInput, or with a
\* column (Type_H) no request carries
FullVocabulary == <<"Torque", "Tool_wear", "Air_temperature">>
OpenVocabulary == <<"Torque", "Tool_wear", "Type_H">>

\* vocabulary and NaN policies of the two classifiers (the policies only matter
\* when a column can be missing)
ClassifierKinds ==
    { [features |-> FullVocabulary, nan1 |-> "accept", nan2 |-> "accept"],
      [features |-> OpenVocabulary, nan1 |-> "accept", nan2 |-> "accept"],
      [features |-> OpenVocabulary, nan1 |-> "accept", nan2 |-> "raise"],
      [features |-> OpenVocabulary, nan1 |-> "raise", nan2 |-> "raise"] }

\* the gate bundle, with or without an embedded threshold
Stage1Bundle(k, embedded) ==
    IF embedded
    THEN [model |-> [nan |-> k.nan1], threshold |-> T_CAL, features |-> k.features]
    ELSE [model |-> [nan |-> k.nan1], features |-> k.features]

ModeOrders == { <<"TWF", "HDF">>, <<"HDF", "TWF">> }

\* per-mode thresholds; the last one has no entry for HDF
ThresholdMaps ==
    { [TWF |-> T_HALF, HDF |-> T_CAL],
      [TWF |-> T_CAL, HDF |-> T_HALF],
      [TWF |-> T_HALF] }

\* the shared config, with or without a default gate threshold
Config(default, t, c) ==
    IF default
    THEN [stage1_threshold |-> T_HALF, failure_thresholds |-> t, failure_cols |-> c]
    ELSE [failure_thresholds |-> t, failure_cols |-> c]

\* where the gate threshold comes from: the bundle, the config's default, nowhere
ThresholdSources ==
    { [embedded |-> TRUE, default |-> TRUE],
      [embedded |-> FALSE, default |-> TRUE],
      [embedded |-> FALSE, default |-> FALSE] }

\* artifact sets whose import runs to its end
LoadableSets ==
    { [stage1_dict |-> Stage1Bundle(k, s.embedded),
       stage2_model |-> [nan |-> k.nan2],
       config |-> Config(s.default, t, c)]
        : k \in ClassifierKinds, s \in ThresholdSources,
          t \in ThresholdMaps, c \in ModeOrders }

\* one complete, consistent artifact set
GoodStage1 == [model |-> [nan |-> "accept"], threshold |-> T_CAL,
               features |-> FullVocabulary]
GoodStage2 == [nan |-> "accept"]
GoodConfig == [stage1_threshold |-> T_HALF,
               failure_thresholds |-> [TWF |-> T_HALF, HDF |-> T_CAL],
               failure_cols |-> <<"TWF", "HDF">>]
GoodSet == [stage1_dict |-> GoodStage1, stage2_model |-> GoodStage2, config |-> GoodConfig]

\* artifact sets with a file that cannot be read or a key the import subscripts missing
BrokenSets ==
    { [GoodSet EXCEPT !.stage1_dict = NoFile],
      [GoodSet EXCEPT !.stage2_model = NoFile],
      [GoodSet EXCEPT !.config = NoFile],
      [GoodSet EXCEPT !.stage1_dict = [model |-> [nan |-> "accept"], threshold |-> T_CAL]],
      [GoodSet EXCEPT !.stage1_dict = [threshold |-> T_CAL, features |-> FullVocabulary]],
      [GoodSet EXCEPT !.config = [stage1_threshold |-> T_HALF,
                                  failure_thresholds |-> [TWF |-> T_HALF, HDF |-> T_CAL]]],
      [GoodSet EXCEPT !.config = [stage1_threshold |-> T_HALF,
                                  failure_cols |-> <<"TWF", "HDF">>]] }

ArtifactSets == LoadableSets \cup BrokenSets

----------------------------------------------------------------------------
(* The classifiers: fixed, deterministic functions of the feature vector.  *)
(* The gate reads column 1, mode channel i reads column i + 1; a cell is   *)
(* an index into the probabilities the classifier can emit.                *)

GateSamples == << 0, Den \div 16, T_CAL - 1, T_CAL, T_HALF - 1, T_HALF, Den >>
ModeSamples == << T_CAL - 1, T_CAL, T_HALF - 1, T_HALF, Den >>

HasNaN(X) == \E c \in DOMAIN X : X[c] = NaN

Cell(samples, x) == IF x = NaN THEN samples[1] ELSE samples[x]

\* stage1_model.predict_proba(X)[0, 1]
Stage1Proba(X) == Cell(GateSamples, X[1])

\* stage2_model.predict_proba(X_array): one channel per mode, probs[i][0, 1]
Stage2Proba(X, n) == [c \in 1..n |-> Cell(ModeSamples, X[c + 1])]

----------------------------------------------------------------------------
(* Requests: a validated MachineInput *)

MachineInput(torque, wear, air, type_l) ==
    [ Air_temperature |-> air, Process_temperature |-> 1, Rotational_speed |-> 1,
      Torque |-> torque, Tool_wear |-> wear, Type_L |-> type_l, Type_M |-> ~type_l,
      vehicle_name |-> "Unknown", model |-> "Unknown",
      machine_age |-> 0, total_kilometers |-> 0 ]

AllInputs ==
    { MachineInput(t, w, a, FALSE) :
        t \in DOMAIN GateSamples, w \in DOMAIN ModeSamples, a \in DOMAIN ModeSamples }

\* a few requests for the concurrent specification: below the gate, at the gate
\* with no mode detected, above the gate with one and with two modes detected
FewInputs ==
    { MachineInput(3, 1, 1, FALSE), MachineInput(4, 1, 1, FALSE),
      MachineInput(6, 4, 1, TRUE), MachineInput(7, 5, 5, FALSE) }

\* X = pd.DataFrame([input_data]).reindex(columns=STAGE1_FEATURES)
Reindex(input_data, features) ==
    [c \in 1..Len(features) |->
        IF features[c] \in DOMAIN input_data THEN input_data[features[c]] ELSE NaN]

----------------------------------------------------------------------------
(* State *)

VARIABLES
    phase,               \* "import" while predictor.py is being imported, then "serving" or "crashed"
    stage1_dict,         \* joblib.load(stage1_failure_detector.pkl)
    stage2_model,        \* joblib.load(stage2_failure_classifier.pkl)
    config,              \* joblib.load(config.pkl)
    stage1_model,        \* module globals of predictor.py
    STAGE1_THRESHOLD,
    STAGE1_FEATURES,
    FAILURE_THRESHOLDS,
    FAILURE_COLS,
    loop,                \* the request whose coroutine runs on the event loop thread, 0 when the loop is free
    pc,                  \* per request: where its handler is
    data,                \* per request: the MachineInput
    frame,               \* per request: the locals of predict_machine_failure
    stage2_calls,        \* per request: calls of stage2_model.predict_proba made for it
    prediction_result,   \* per request: what predict_machine_failure returned
    groq_response,       \* per request: how the Groq call on the worker thread ended
    response             \* per request: the HTTP response

disk == <<stage1_dict, stage2_model, config>>
globals == <<stage1_model, STAGE1_THRESHOLD, STAGE1_FEATURES, FAILURE_THRESHOLDS, FAILURE_COLS>>
artifacts == <<disk, globals>>
requests == <<pc, data, frame, stage2_calls, prediction_result, groq_response, response>>
vars == <<phase, artifacts, loop, requests>>

NoData == [Torque |-> 0]
NoFrame == [X |-> <<>>, p_fail |-> -1, probs |-> <<>>, failure_types |-> EmptyDict,
            detected |-> FALSE, i |-> 0]
NoResult == [failure |-> -1, failure_probability |-> -1, failure_types |-> NoneTypes]
NoResponse == [status_code |-> 0]

Slots == DOMAIN pc

InitRequests(n) ==
    /\ loop = 0
    /\ pc = [r \in 1..n |-> "idle"]
    /\ data = [r \in 1..n |-> NoData]
    /\ frame = [r \in 1..n |-> NoFrame]
    /\ stage2_calls = [r \in 1..n |-> 0]
    /\ prediction_result = [r \in 1..n |-> NoResult]
    /\ groq_response = [r \in 1..n |-> "none"]
    /\ response = [r \in 1..n |-> NoResponse]

InitGlobals ==
    /\ phase = "import"
    /\ stage1_model = [nan |-> "unset"]
    /\ STAGE1_THRESHOLD = None
    /\ STAGE1_FEATURES = <<>>
    /\ FAILURE_THRESHOLDS = EmptyDict
    /\ FAILURE_COLS = <<>>

\* any artifact set on disk, one request at a time
Init ==
    /\ \E a \in ArtifactSets :
          /\ stage1_dict = a.stage1_dict
          /\ stage2_model = a.stage2_model
          /\ config = a.config
    /\ InitGlobals
    /\ InitRequests(1)

\* the complete artifact set, MaxReq requests in flight
InitConc ==
    /\ stage1_dict = GoodStage1
    /\ stage2_model = GoodStage2
    /\ config = GoodConfig
    /\ InitGlobals
    /\ InitRequests(MaxReq)

----------------------------------------------------------------------------
(* Import of predictor.py *)

\* the import runs to its end: every file loads and every subscripted key exists
LoadSucceeds ==
    /\ stage1_dict # NoFile /\ stage2_model # NoFile /\ config # NoFile
    /\ {"model", "features"} \subseteq DOMAIN stage1_dict
    /\ {"failure_thresholds", "failure_cols"} \subseteq DOMAIN config

Load ==
    /\ phase = "import"
    /\ IF LoadSucceeds
       THEN /\ stage1_model' = stage1_dict["model"]
            /\ STAGE1_THRESHOLD' =
                   Get(stage1_dict, "threshold", Get(config, "stage1_threshold", None))
            /\ STAGE1_FEATURES' = stage1_dict["features"]
            /\ FAILURE_THRESHOLDS' = config["failure_thresholds"]
            /\ FAILURE_COLS' = config["failure_cols"]
            /\ phase' = "serving"
       ELSE /\ phase' = "crashed"
            /\ UNCHANGED globals
    /\ UNCHANGED <<disk, loop, requests>>

----------------------------------------------------------------------------
(* The /predict handler up to the call of predict_machine_failure *)

\* a validated request arrives; its coroutine waits for the event loop
Arrive(r, d) ==
    /\ phase = "serving"
    /\ pc[r] = "idle"
    /\ pc' = [pc EXCEPT ![r] = "queued"]
    /\ data' = [data EXCEPT ![r] = d]
    /\ UNCHANGED <<phase, artifacts, loop, frame, stage2_calls, prediction_result,
                   groq_response, response>>

\* the event loop starts the coroutine: it runs on the loop's thread until it awaits
Begin(r) ==
    /\ pc[r] = "queued"
    /\ loop = 0
    /\ loop' = r
    /\ pc' = [pc EXCEPT ![r] = "align"]
    /\ UNCHANGED <<phase, artifacts, data, frame, stage2_calls, prediction_result,
                   groq_response, response>>

\* an exception leaves predict_machine_failure; the handler's except clause turns
\* it into HTTPException(status_code=500, detail=str(e))
Raise(r, exc) ==
    /\ response' = [response EXCEPT ![r] = [status_code |-> 500, detail |-> exc]]
    /\ frame' = [frame EXCEPT ![r] = NoFrame]
    /\ pc' = [pc EXCEPT ![r] = "done"]
    /\ loop' = 0
    /\ UNCHANGED <<prediction_result, groq_response>>

----------------------------------------------------------------------------
(* predict_machine_failure *)

\* lines 23-26
Align(r) ==
    /\ pc[r] = "align"
    /\ frame' = [frame EXCEPT ![r].X = Reindex(data[r], STAGE1_FEATURES)]
    /\ pc' = [pc EXCEPT ![r] = "stage1"]
    /\ UNCHANGED <<phase, artifacts, loop, data, stage2_calls, prediction_result,
                   groq_response, response>>

\* line 28
Stage1(r) ==
    /\ pc[r] = "stage1"
    /\ IF HasNaN(frame[r].X) /\ stage1_model.nan = "raise"
       THEN Raise(r, "ValueError")
       ELSE /\ frame' = [frame EXCEPT ![r].p_fail = Stage1Proba(frame[r].X)]
            /\ pc' = [pc EXCEPT ![r] = "gate"]
            /\ UNCHANGED <<loop, prediction_result, groq_response, response>>
    /\ UNCHANGED <<phase, artifacts, data, stage2_calls>>

\* mutants of the gate comparison: the wrong direction, the threshold itself
\* taken as below the gate, the probability rounded before it is compared
BelowGateInverted(p, threshold) == p > threshold
BelowGateInclusive(p, threshold) == p <= threshold
BelowGateRounded(p, threshold) == Round3(p) * Den < threshold * 1000

\* line 31: the gate does not fire
BelowGate(p, threshold) == p < threshold

\* lines 32-36
Healthy(p) ==
    [failure |-> 0, failure_probability |-> Round3(p), failure_types |-> NoneTypes]

\* lines 31-36
Gate(r) ==
    /\ pc[r] = "gate"
    /\ IF STAGE1_THRESHOLD = None
       THEN Raise(r, "TypeError")
       ELSE IF BelowGate(frame[r].p_fail, STAGE1_THRESHOLD)
       THEN /\ prediction_result' =
                   [prediction_result EXCEPT ![r] = Healthy(frame[r].p_fail)]
            /\ frame' = [frame EXCEPT ![r] = NoFrame]
            /\ pc' = [pc EXCEPT ![r] = "report"]
            /\ UNCHANGED <<loop, groq_response, response>>
       ELSE /\ pc' = [pc EXCEPT ![r] = "stage2"]
            /\ UNCHANGED <<loop, frame, prediction_result, groq_response, response>>
    /\ UNCHANGED <<phase, artifacts, data, stage2_calls>>

\* lines 39-44
Stage2(r) ==
    /\ pc[r] = "stage2"
    /\ stage2_calls' = [stage2_calls EXCEPT ![r] = @ + 1]
    /\ IF HasNaN(frame[r].X) /\ stage2_model.nan = "raise"
       THEN Raise(r, "ValueError")
       ELSE /\ frame' = [frame EXCEPT
                   ![r].probs = Stage2Proba(frame[r].X, Len(FAILURE_COLS)),
                   ![r].failure_types = EmptyDict,
                   ![r].detected = FALSE,
                   ![r].i = 1]
            /\ pc' = [pc EXCEPT ![r] = "loop"]
            /\ UNCHANGED <<loop, prediction_result, groq_response, response>>
    /\ UNCHANGED <<phase, artifacts, data>>

\* mutants of the mode comparison: strict, and on the rounded probability
ModeDetectedStrict(prob, threshold) == prob > threshold
ModeDetectedRounded(prob, threshold) == Round3(prob) * Den >= threshold * 1000

\* line 48: the mode is detected
ModeDetected(prob, threshold) == prob >= threshold

\* mutant: every mode reads the first channel
ModeProbFirst(probs, i) == probs[1]

\* line 47: the probability of the mode at position i
ModeProb(probs, i) == probs[i]

\* mutant: the detected probability is written into FAILURE_THRESHOLDS[col]
\* instead of failure_types[col]
StoreIntoThresholds(r, col, prob) ==
    /\ frame' = [frame EXCEPT ![r].detected = TRUE, ![r].i = @ + 1]
    /\ FAILURE_THRESHOLDS' = Put(FAILURE_THRESHOLDS, col, prob)

\* line 49: failure_types[col] = round(float(prob), 3), and nothing else is written
StoreDetected(r, col, prob) ==
    /\ frame' = [frame EXCEPT
           ![r].failure_types = Put(@, col, Round3(prob)),
           ![r].detected = TRUE,
           ![r].i = @ + 1]
    /\ UNCHANGED FAILURE_THRESHOLDS

\* lines 46-50, one iteration
LoopIter(r) ==
    /\ pc[r] = "loop"
    /\ frame[r].i <= Len(FAILURE_COLS)
    /\ LET col == FAILURE_COLS[frame[r].i]
           prob == ModeProb(frame[r].probs, frame[r].i)
       IN  IF col \notin DOMAIN FAILURE_THRESHOLDS
           THEN Raise(r, "KeyError") /\ UNCHANGED FAILURE_THRESHOLDS
           ELSE /\ IF ModeDetected(prob, FAILURE_THRESHOLDS[col])
                   THEN StoreDetected(r, col, prob)
                   ELSE /\ frame' = [frame EXCEPT ![r].i = @ + 1]
                        /\ UNCHANGED FAILURE_THRESHOLDS
                /\ UNCHANGED <<loop, pc, prediction_result, groq_response, response>>
    /\ UNCHANGED <<phase, disk, stage1_model, STAGE1_THRESHOLD, STAGE1_FEATURES,
                   FAILURE_COLS, data, stage2_calls>>

\* mutant: the fallback is added when a mode was detected, not when none was
NeedsFallbackInverted(detected) == detected

\* line 52
NeedsFallback(detected) == ~detected

\* mutant: the fallback entry carries the first mode probability
FallbackFromMode(p, probs) == IF Len(probs) > 0 THEN Round3(probs[1]) ELSE Round3(p)

\* line 53
FallbackEntry(p, probs) == Round3(p)

\* lines 52-53
WithFallback(f) ==
    IF NeedsFallback(f.detected)
    THEN Put(f.failure_types, "RNF", FallbackEntry(f.p_fail, f.probs))
    ELSE f.failure_types

\* lines 55-59
Failing(f) ==
    [failure |-> 1, failure_probability |-> Round3(f.p_fail),
     failure_types |-> SomeTypes(WithFallback(f))]

\* lines 52-59, after the loop
Finish(r) ==
    /\ pc[r] = "loop"
    /\ frame[r].i > Len(FAILURE_COLS)
    /\ prediction_result' = [prediction_result EXCEPT ![r] = Failing(frame[r])]
    /\ frame' = [frame EXCEPT ![r] = NoFrame]
    /\ pc' = [pc EXCEPT ![r] = "report"]
    /\ UNCHANGED <<phase, artifacts, loop, data, stage2_calls, groq_response, response>>

----------------------------------------------------------------------------
(* The rest of the handler and generate_maintenance_report *)

\* main.py line 35
VehicleType(d) == IF d.Type_L THEN "L" ELSE "M"

\* vehiclereport.py lines 36-40
FailureStatus(result) ==
    IF result.failure = 1 THEN "CRITICAL - Failure Detected" ELSE "Operational"

\* vehiclereport.py line 45
Quality(vehicle_type) == IF vehicle_type = "M" THEN "Medium Quality" ELSE "Low Quality"

\* main.py lines 35-45 and vehiclereport.py lines 36-104: the prompt is built on
\* the loop's thread, then the coroutine awaits asyncio.to_thread(...) and the
\* loop is free while the Groq call runs on a worker thread (client is a Groq
\* object, so the branch of lines 90-98 is not taken)
Report(r) ==
    /\ pc[r] = "report"
    /\ loop' = 0
    /\ pc' = [pc EXCEPT ![r] = "groq"]
    /\ UNCHANGED <<phase, artifacts, data, frame, stage2_calls, prediction_result,
                   groq_response, response>>

\* the worker thread's call returns a completion or raises
GroqDone(r, outcome) ==
    /\ pc[r] = "groq"
    /\ groq_response' = [groq_response EXCEPT ![r] = outcome]
    /\ pc' = [pc EXCEPT ![r] = "resume"]
    /\ UNCHANGED <<phase, artifacts, loop, data, frame, stage2_calls,
                   prediction_result, response>>

\* vehiclereport.py lines 130-145 and 150-159: {**prediction_result, "maintenance_report": ...}
DetailedReport(result, d, outcome) ==
    [ status_code |-> 200,
      failure |-> result.failure,
      failure_probability |-> result.failure_probability,
      failure_types |-> result.failure_types,
      status |-> FailureStatus(result),
      groq_available |-> (outcome = "completion"),
      type |-> VehicleType(d),
      quality |-> Quality(VehicleType(d)) ]

\* the loop resumes the coroutine, which returns without awaiting again
Respond(r) ==
    /\ pc[r] = "resume"
    /\ loop = 0
    /\ response' = [response EXCEPT ![r] =
           DetailedReport(prediction_result[r], data[r], groq_response[r])]
    /\ pc' = [pc EXCEPT ![r] = "done"]
    /\ UNCHANGED <<phase, artifacts, loop, data, frame, stage2_calls,
                   prediction_result, groq_response>>

\* the response is sent and the request is over
Collect(r) ==
    /\ pc[r] = "done"
    /\ pc' = [pc EXCEPT ![r] = "idle"]
    /\ data' = [data EXCEPT ![r] = NoData]
    /\ stage2_calls' = [stage2_calls EXCEPT ![r] = 0]
    /\ prediction_result' = [prediction_result EXCEPT ![r] = NoResult]
    /\ groq_response' = [groq_response EXCEPT ![r] = "none"]
    /\ response' = [response EXCEPT ![r] = NoResponse]
    /\ UNCHANGED <<phase, artifacts, loop, frame>>

----------------------------------------------------------------------------
(* Specifications *)

Next ==
    \/ Load
    \/ \E r \in Slots : \E d \in AllInputs : Arrive(r, d)
    \/ \E r \in Slots : Begin(r)
    \/ \E r \in Slots : Align(r)
    \/ \E r \in Slots : Stage1(r)
    \/ \E r \in Slots : Gate(r)
    \/ \E r \in Slots : Stage2(r)
    \/ \E r \in Slots : LoopIter(r)
    \/ \E r \in Slots : Finish(r)
    \/ \E r \in Slots : Report(r)
    \/ \E r \in Slots : \E outcome \in {"completion", "error"} : GroqDone(r, outcome)
    \/ \E r \in Slots : Respond(r)
    \/ \E r \in Slots : Collect(r)

NextConc ==
    \/ Load
    \/ \E r \in Slots : \E d \in FewInputs : Arrive(r, d)
    \/ \E r \in Slots : Begin(r)
    \/ \E r \in Slots : Align(r)
    \/ \E r \in Slots : Stage1(r)
    \/ \E r \in Slots : Gate(r)
    \/ \E r \in Slots : Stage2(r)
    \/ \E r \in Slots : LoopIter(r)
    \/ \E r \in Slots : Finish(r)
    \/ \E r \in Slots : Report(r)
    \/ \E r \in Slots : \E outcome \in {"completion", "error"} : GroqDone(r, outcome)
    \/ \E r \in Slots : Respond(r)
    \/ \E r \in Slots : Collect(r)

\* any artifact set, any input, one request at a time
Spec == Init /\ [][Next]_vars

\* the complete artifact set, a few inputs, MaxReq requests in flight
SpecConc == InitConc /\ [][NextConc]_vars

----------------------------------------------------------------------------
(* What a request's call computes, read off the request and the loaded       *)
(* artifacts rather than off the call's locals                               *)

InCall(r) == data[r] # NoData /\ pc[r] \notin {"idle", "queued"}

Returned(r) == prediction_result[r] # NoResult

\* the vector the classifiers see for the request
FeatureVector(r) == Reindex(data[r], STAGE1_FEATURES)

\* Stage 1 yields a probability for the request (it does not raise on the vector)
Stage1Returns(r) == ~(HasNaN(FeatureVector(r)) /\ stage1_model.nan = "raise")

\* the Stage 1 probability of the request
GateProbability(r) == Stage1Proba(FeatureVector(r))

\* the Stage 2 probabilities of the request, by channel
ModeProbabilities(r) == Stage2Proba(FeatureVector(r), Len(FAILURE_COLS))

\* the positions whose mode has a threshold that its own probability meets
DetectedPositions(r) ==
    { i \in 1..Len(FAILURE_COLS) :
        /\ FAILURE_COLS[i] \in DOMAIN FAILURE_THRESHOLDS
        /\ ModeProbabilities(r)[i] >= FAILURE_THRESHOLDS[FAILURE_COLS[i]] }

DetectedModes(r) == { FAILURE_COLS[i] : i \in DetectedPositions(r) }

\* the value rounded to 3 decimals is at or above the threshold
RoundedMeets(m, threshold) == Round3(m) * Den >= threshold * 1000

----------------------------------------------------------------------------

GateLow(r) ==
    /\ InCall(r)
    /\ Stage1Returns(r)
    /\ STAGE1_THRESHOLD # None
    /\ GateProbability(r) < STAGE1_THRESHOLD

(* C1: whenever the Stage 1 probability of a call is strictly below          *)
(* STAGE1_THRESHOLD, stage2_model.predict_proba is not invoked at any point  *)
(* of that call (its call count stays 0 and the call never stands in the     *)
(* Stage 2 part of the function), and what the call returns is failure = 0   *)
(* with failure_types = None.                                                *)
C1_GateShortCircuit ==
    \A r \in Slots :
        GateLow(r) =>
            /\ stage2_calls[r] = 0
            /\ pc[r] \notin {"stage2", "loop"}
            /\ Returned(r) =>
                  /\ prediction_result[r].failure = 0
                  /\ prediction_result[r].failure_types = NoneTypes

\* a call below the gate has returned
C1_Witness ==
    \E r \in Slots :
        /\ GateLow(r)
        /\ pc[r] = "report"
        /\ prediction_result[r].failure = 0
        /\ GateProbability(r) > 0

----------------------------------------------------------------------------

GateHigh(r) ==
    /\ InCall(r)
    /\ Stage1Returns(r)
    /\ STAGE1_THRESHOLD # None
    /\ GateProbability(r) >= STAGE1_THRESHOLD

(* C2: whenever the Stage 1 probability of a call is at or above             *)
(* STAGE1_THRESHOLD, equality included, the result the call returns has      *)
(* failure = 1.                                                              *)
C2_GateTriggersInclusive ==
    \A r \in Slots :
        (GateHigh(r) /\ Returned(r)) => prediction_result[r].failure = 1

\* a call whose probability equals the threshold has returned failure = 1
C2_Witness ==
    \E r \in Slots :
        /\ InCall(r)
        /\ GateProbability(r) = STAGE1_THRESHOLD
        /\ Returned(r)
        /\ prediction_result[r].failure = 1

----------------------------------------------------------------------------
(* C3: every result predict_machine_failure returns has failure in {0, 1},   *)
(* failure_types = None exactly when failure = 0, and a non-empty            *)
(* failure_types mapping when failure = 1.                                   *)

C3_ResultShape ==
    \A r \in Slots :
        Returned(r) =>
            LET res == prediction_result[r]
            IN  /\ res.failure \in {0, 1}
                /\ res.failure_types.none <=> res.failure = 0
                /\ res.failure = 1 => DOMAIN res.failure_types.items # {}

\* the gate fired, no mode was detected, and the result is still non-empty
C3_Witness ==
    \E r \in Slots :
        /\ Returned(r)
        /\ prediction_result[r].failure = 1
        /\ DetectedModes(r) = {}
        /\ DOMAIN prediction_result[r].failure_types.items # {}

----------------------------------------------------------------------------
(* C4: when the gate fires and no mode of FAILURE_COLS has a probability     *)
(* meeting its threshold, failure_types is exactly {"RNF": round(p_fail, 3)}, *)
(* the value being the gate probability; when some mode is detected there is *)
(* no "RNF" entry.                                                           *)

C4_FallbackExactness ==
    \A r \in Slots :
        (Returned(r) /\ prediction_result[r].failure = 1) =>
            LET items == prediction_result[r].failure_types.items
            IN  /\ DetectedModes(r) = {} =>
                      items = [k \in {"RNF"} |-> Round3(GateProbability(r))]
                /\ DetectedModes(r) # {} => "RNF" \notin DOMAIN items

\* the fallback was taken where the gate probability and every mode
\* probability round to different values
C4_Witness ==
    \E r \in Slots :
        /\ Returned(r)
        /\ prediction_result[r].failure = 1
        /\ DetectedModes(r) = {}
        /\ DOMAIN prediction_result[r].failure_types.items = {"RNF"}
        /\ \A i \in 1..Len(FAILURE_COLS) :
              Round3(ModeProbabilities(r)[i]) # Round3(GateProbability(r))

----------------------------------------------------------------------------
(* C5: when the gate fires and at least one mode is detected, the keys of    *)
(* failure_types are exactly the modes FAILURE_COLS[i] whose own probability *)
(* (the one at position i) is >= FAILURE_THRESHOLDS[FAILURE_COLS[i]], each    *)
(* mapped to that probability rounded to 3 decimals; whether a mode appears  *)
(* does not depend on the other modes.                                       *)

C5_PerModeDetection ==
    \A r \in Slots :
        (Returned(r) /\ prediction_result[r].failure = 1 /\ DetectedModes(r) # {}) =>
            LET items == prediction_result[r].failure_types.items
            IN  /\ DOMAIN items = DetectedModes(r)
                /\ \A i \in DetectedPositions(r) :
                      items[FAILURE_COLS[i]] = Round3(ModeProbabilities(r)[i])

\* two modes appear together, with different values
C5_Witness ==
    \E r \in Slots :
        /\ Returned(r)
        /\ prediction_result[r].failure = 1
        /\ LET items == prediction_result[r].failure_types.items
           IN  /\ Cardinality(DOMAIN items) = 2
               /\ DOMAIN items = DetectedModes(r)
               /\ items[FAILURE_COLS[1]] # items[FAILURE_COLS[2]]

----------------------------------------------------------------------------
(* C6: the gate decision and every mode decision are taken on the unrounded  *)
(* probability: a probability strictly below its threshold that rounds (to 3 *)
(* decimals) to the threshold or above does not trigger, one at or above its *)
(* threshold that rounds to below it triggers; rounding shows only in the    *)
(* values of the result.                                                     *)

C6_UnroundedComparisons ==
    \A r \in Slots :
        (Returned(r) /\ Stage1Returns(r) /\ STAGE1_THRESHOLD # None) =>
            LET res == prediction_result[r]
                p == GateProbability(r)
                probs == ModeProbabilities(r)
            IN  /\ res.failure_probability = Round3(p)
                /\ (p < STAGE1_THRESHOLD /\ RoundedMeets(p, STAGE1_THRESHOLD))
                      => res.failure = 0
                /\ (p >= STAGE1_THRESHOLD /\ ~RoundedMeets(p, STAGE1_THRESHOLD))
                      => res.failure = 1
                /\ res.failure = 1 =>
                      \A i \in 1..Len(FAILURE_COLS) :
                          LET col == FAILURE_COLS[i]
                              t == FAILURE_THRESHOLDS[col]
                          IN  col \in DOMAIN FAILURE_THRESHOLDS =>
                                /\ (probs[i] < t /\ RoundedMeets(probs[i], t))
                                      => col \notin DOMAIN res.failure_types.items
                                /\ (probs[i] >= t /\ ~RoundedMeets(probs[i], t))
                                      => /\ col \in DOMAIN res.failure_types.items
                                         /\ res.failure_types.items[col] = Round3(probs[i])

\* the gate fired on a probability that rounds to below the threshold, one
\* mode below its threshold rounds up to it and is absent, the other is at its
\* threshold, rounds to below it and is present
C6_Witness ==
    \E r \in Slots :
        /\ Returned(r)
        /\ Stage1Returns(r)
        /\ GateProbability(r) >= STAGE1_THRESHOLD
        /\ ~RoundedMeets(GateProbability(r), STAGE1_THRESHOLD)
        /\ prediction_result[r].failure = 1
        /\ \E i, j \in 1..Len(FAILURE_COLS) :
              LET probs == ModeProbabilities(r)
                  ti == FAILURE_THRESHOLDS[FAILURE_COLS[i]]
                  tj == FAILURE_THRESHOLDS[FAILURE_COLS[j]]
              IN  /\ probs[i] < ti /\ RoundedMeets(probs[i], ti)
                  /\ FAILURE_COLS[i] \notin DOMAIN prediction_result[r].failure_types.items
                  /\ probs[j] >= tj /\ ~RoundedMeets(probs[j], tj)
                  /\ FAILURE_COLS[j] \in DOMAIN prediction_result[r].failure_types.items

----------------------------------------------------------------------------

CompleteArtifacts ==
    /\ STAGE1_THRESHOLD # None
    /\ \A i \in 1..Len(FAILURE_COLS) : FAILURE_COLS[i] \in DOMAIN FAILURE_THRESHOLDS

HitsMissingThreshold(r) ==
    /\ response[r].status_code = 500
    /\ response[r].detail \in {"KeyError", "TypeError"}

(* C7: the process serves only with a complete, consistent artifact set: a   *)
(* gate threshold is present and every member of failure_cols has an entry   *)
(* in failure_thresholds; otherwise the import fails, so no request ends on  *)
(* a missing threshold.                                                      *)
C7_StartupConsistency ==
    /\ phase = "serving" => CompleteArtifacts
    /\ \A r \in Slots : ~HitsMissingThreshold(r)

----------------------------------------------------------------------------

ArtifactsUnchanged == phase = "serving" => artifacts' = artifacts

SameInputSameResult ==
    \A r1, r2 \in Slots :
        (Returned(r1) /\ Returned(r2) /\ data[r1] = data[r2]) =>
            prediction_result[r1] = prediction_result[r2]

(* C8: no step of a call changes the loaded artifacts or the configuration,  *)
(* and two calls with the same input record return the same result, however  *)
(* many other calls ran before or between them.                              *)
C8_StatelessDeterministic == [][ArtifactsUnchanged]_vars /\ []SameInputSameResult

\* two requests with the same input hold their results at the same time, and
\* a mode was detected for them
C8_Witness ==
    \E r1, r2 \in Slots :
        /\ r1 # r2
        /\ data[r1] = data[r2]
        /\ Returned(r1) /\ Returned(r2)
        /\ pc[r1] = "done" /\ pc[r2] = "report"
        /\ prediction_result[r1].failure = 1
        /\ "TWF" \in DOMAIN prediction_result[r1].failure_types.items
        /\ FAILURE_THRESHOLDS = GoodConfig.failure_thresholds

----------------------------------------------------------------------------

\* the request stands after the call of stage1_model.predict_proba
PastStage1(r) == pc[r] \in {"gate", "stage2", "loop"}

(* C9: the vector handed to Stage 1 has exactly the columns of               *)
(* STAGE1_FEATURES in that order, fields outside the vocabulary are dropped, *)
(* a vocabulary field absent from the input is the missing marker (not       *)
(* zero), and no classifier is invoked on a vector holding a missing marker: *)
(* the call is stopped before Stage 1.                                       *)
C9_FeatureAlignment ==
    \A r \in Slots :
        /\ frame[r].X # <<>> =>
              /\ Len(frame[r].X) = Len(STAGE1_FEATURES)
              /\ \A c \in 1..Len(STAGE1_FEATURES) :
                    IF STAGE1_FEATURES[c] \in DOMAIN data[r]
                    THEN frame[r].X[c] = data[r][STAGE1_FEATURES[c]]
                    ELSE frame[r].X[c] = NaN /\ frame[r].X[c] # 0
        /\ PastStage1(r) => ~HasNaN(frame[r].X)
        /\ stage2_calls[r] > 0 => ~HasNaN(FeatureVector(r))
        /\ response[r].status_code = 500 => response[r].detail # "ValueError"

----------------------------------------------------------------------------

\* the request stands inside predict_machine_failure
Inferring(r) == pc[r] \in {"align", "stage1", "gate", "stage2", "loop"}

\* the request's coroutine is ready and only waits for the loop
WaitsForLoop(r) == pc[r] \in {"queued", "resume"}

(* C10: predict_machine_failure does not run on the event loop's thread, so  *)
(* while one request's inference is in progress the loop can start or resume *)
(* the coroutine of another request that is waiting for it.                  *)
C10_NonBlockingInference ==
    \A r1, r2 \in Slots :
        (Inferring(r1) /\ WaitsForLoop(r2)) => ENABLED (Begin(r2) \/ Respond(r2))

====
